---- MODULE Spec2Model ----
(***************************************************************************)
(* SwarmSim demo engine (src/script.js): agents that chase food and avoid  *)
(* dangers on a canvas, stepped by a requestAnimationFrame / setTimeout    *)
(* run loop and reset by spawnAll.                                         *)
(*                                                                         *)
(* Numbers.  The engine computes in floating point.  The model uses fixed  *)
(* point: lengths and velocities are integers in hundredths of a CSS pixel *)
(* (U units per pixel), rounded to nearest after every multiplication by a *)
(* fractional coefficient.  Scores, values and severities are integers as  *)
(* in the source.                                                          *)
(*                                                                         *)
(* Math.random().  The engine draws from the unseeded Math.random().  One  *)
(* handler call draws its numbers, in program order, from one stream s of  *)
(* Streams: the k-th draw of the call is Rnd(s, k), in hundredths.  Which  *)
(* stream a call gets is chosen nondeterministically.                      *)
(*                                                                         *)
(* Callbacks.  Pending requestAnimationFrame callbacks are kept up to the  *)
(* identity the source can observe: rafLive says the callback whose id is  *)
(* held in raf is pending, orphans counts pending callbacks whose id the   *)
(* program no longer holds; timers counts pending setTimeout callbacks.    *)
(***************************************************************************)
EXTENDS Integers, Sequences, FiniteSets, TLC

VARIABLES
  agents,    \* script.js:42  sequence of agent records, in creation order
  foods,     \* script.js:42  sequence of food records
  dangers,   \* script.js:42  sequence of danger records
  running,   \* script.js:43
  tick,      \* script.js:43
  score,     \* script.js:43  global total score
  raf,       \* script.js:43  "null" or "id"
  rafLive,   \* the animation-frame callback whose id raf holds is pending
  orphans,   \* pending animation-frame callbacks whose id is not in raf
  timers,    \* pending setTimeout(loop, 160) callbacks
  width,     \* canvas.width / devicePixelRatio, in CSS pixels
  stats,     \* the labels written by updateStats
  last,      \* history: the handler that ran last and what it called
  ev,        \* history: collections and contacts of the last stepOnce
  twin,      \* a second, independent run (used by SpecTwin only)
  inputs,    \* the values of the input elements read by the last spawnAll
  net        \* the message router (used by SpecRouter only)

vars == <<agents, foods, dangers, running, tick, score, raf, rafLive,
          orphans, timers, width, stats, last, ev, twin, inputs, net>>

----------------------------------------------------------------------------
(* Bounds of the model *)

MaxTick == 2
MaxPending == 2
MaxBits == 4

(* Program constants *)

CanvasH == 360
SpawnMargin == 40
ItemMargin == 20
AgentMargin == 12
ContactRange == 14
FleeRange == 120
DemoLimit == 10
StepLimit == 500
DefaultAgents == 5
DefaultFoods == 9
DefaultDangers == 5

U == 10 * 10   \* fixed-point units per CSS pixel

Widths == {100, 200}

Streams == 1..3

Pattern == <<90, 10, 20, 70, 40, 5, 60>>

Rnd(s, k) ==
  CASE s = 1 -> 0
    [] s = 2 -> 50
    [] OTHER -> Pattern[(k % Len(Pattern)) + 1]

----------------------------------------------------------------------------
(* Arithmetic *)

Max(a, b) == IF a >= b THEN a ELSE b
Min(a, b) == IF a <= b THEN a ELSE b

\* n/d rounded to the nearest integer, halves upwards (Math.round), d > 0
RoundDiv(n, d) == (2 * n + d) \div (2 * d)

\* Math.round(n/d) for any non-zero d
MathRound(n, d) == IF d > 0 THEN RoundDiv(n, d) ELSE RoundDiv(-n, -d)

RECURSIVE SqrtSearch(_, _, _)
SqrtSearch(n, lo, hi) ==
  IF lo >= hi THEN lo
  ELSE LET mid == (lo + hi + 1) \div 2
       IN IF mid * mid <= n THEN SqrtSearch(n, mid, hi)
                            ELSE SqrtSearch(n, lo, mid - 1)

ISqrt(n) == SqrtSearch(n, 0, 46340)

Hypot(dx, dy) == ISqrt(dx * dx + dy * dy)

Dist2(a, b) == (a.x - b.x) * (a.x - b.x) + (a.y - b.y) * (a.y - b.y)

\* rand(min, max) with Math.random() = u/100
Rand(min, max, u) == min + RoundDiv(u * (max - min), 100)

Clamp(v, a, b) == Max(a, Min(b, v))

----------------------------------------------------------------------------
(* Configuration: the values of the input elements *)

Num(v) == [nan |-> FALSE, v |-> v]
NaN == [nan |-> TRUE, v |-> 0]

\* Number(x) || d
OrDefault(n, d) == IF n.nan \/ n.v = 0 THEN d ELSE n.v

Cfg(n, gp, cp, ep, f, d) ==
  [agentCount |-> n, pGreedy |-> gp, pCautious |-> cp, pExplorer |-> ep,
   foodCount |-> f, dangerCount |-> d]

Configs ==
  { Cfg(Num(1), Num(100), Num(0), Num(0), Num(1), Num(1)),
    Cfg(Num(2), Num(100), Num(0), Num(0), Num(1), NaN),
    Cfg(Num(2), Num(50), Num(50), Num(0), Num(2), Num(1)),
    Cfg(Num(3), Num(34), Num(33), Num(33), Num(2), Num(2)),
    Cfg(Num(11), Num(100), Num(0), Num(0), Num(1), Num(1)),
    Cfg(Num(501), Num(100), Num(0), Num(0), Num(-1), Num(-1)),
    Cfg(Num(2), Num(100), Num(0), Num(0), Num(6), Num(-1)),
    Cfg(Num(-3), Num(0), Num(100), Num(0), Num(1), Num(1)),
    Cfg(NaN, Num(0), Num(0), Num(0), Num(0), Num(0)),
    Cfg(Num(1), Num(50), Num(50), Num(0), Num(0), Num(0)) }

----------------------------------------------------------------------------
(* spawnAll *)

NewAgent(type, W, s, k) ==
  [x |-> Rand(SpawnMargin * U, W * U - SpawnMargin * U, Rnd(s, k)),
   y |-> Rand(SpawnMargin * U, CanvasH * U - SpawnMargin * U, Rnd(s, k + 1)),
   vx |-> Rand(-80, 80, Rnd(s, k + 2)),
   vy |-> Rand(-80, 80, Rnd(s, k + 3)),
   type |-> type,
   wobble |-> Rnd(s, k + 4) * 10,
   score |-> 0]

\* N; the inputs of the model are integers or NaN, on which Math.floor is the
\* identity
AgentN(cfg) == Max(1, OrDefault(cfg.agentCount, DefaultAgents))

MixTotal(cfg) ==
  LET gp == OrDefault(cfg.pGreedy, 0)
      cp == OrDefault(cfg.pCautious, 0)
      ep == OrDefault(cfg.pExplorer, 0)
  IN IF gp + cp + ep = 0 THEN 100 ELSE gp + cp + ep

GreedyN(cfg) == Max(0, MathRound(OrDefault(cfg.pGreedy, 0) * AgentN(cfg), MixTotal(cfg)))
CautiousN(cfg) == Max(0, MathRound(OrDefault(cfg.pCautious, 0) * AgentN(cfg), MixTotal(cfg)))
ExplorerN(cfg) ==
  Max(0, AgentN(cfg) - MathRound(OrDefault(cfg.pGreedy, 0) * AgentN(cfg), MixTotal(cfg))
                     - MathRound(OrDefault(cfg.pCautious, 0) * AgentN(cfg), MixTotal(cfg)))

\* the type of the i-th agent created: g greedy, then c cautious, then explorers
TypeOf(g, c, i) ==
  IF i <= g THEN "greedy" ELSE IF i <= g + c THEN "cautious" ELSE "explorer"

ItemValue(i) == IF i % 3 = 0 THEN 10 ELSE IF i % 3 = 1 THEN 6 ELSE 2

NewFood(i, W, s, k) ==
  [id |-> i,
   x |-> Rand(SpawnMargin * U, W * U - SpawnMargin * U, Rnd(s, k)),
   y |-> Rand(SpawnMargin * U, CanvasH * U - SpawnMargin * U, Rnd(s, k + 1)),
   value |-> ItemValue(i),
   mobile |-> Rnd(s, k + 2) < 30,
   vx |-> Rand(-50, 50, Rnd(s, k + 3)),
   vy |-> Rand(-50, 50, Rnd(s, k + 4))]

NewDanger(i, W, s, k) ==
  [id |-> i,
   x |-> Rand(SpawnMargin * U, W * U - SpawnMargin * U, Rnd(s, k)),
   y |-> Rand(SpawnMargin * U, CanvasH * U - SpawnMargin * U, Rnd(s, k + 1)),
   severity |-> ItemValue(i),
   mobile |-> Rnd(s, k + 2) < 40,
   vx |-> Rand(-60, 60, Rnd(s, k + 3)),
   vy |-> Rand(-60, 60, Rnd(s, k + 4))]

FoodN(cfg) == Max(0, OrDefault(cfg.foodCount, DefaultFoods))
DangerN(cfg) == Max(0, OrDefault(cfg.dangerCount, DefaultDangers))

\* mutant: the score label shows the total score as it is
StatsOfRaw(w) ==
  [mode |-> IF Len(w.agents) <= DemoLimit THEN "demo" ELSE "data",
   tick |-> w.tick,
   agents |-> Len(w.agents),
   food |-> Len(w.foods),
   danger |-> Len(w.dangers),
   score |-> w.score]

\* the labels of updateStats for a world w
StatsOf(w) ==
  [mode |-> IF Len(w.agents) <= DemoLimit THEN "demo" ELSE "data",
   tick |-> w.tick,
   agents |-> Len(w.agents),
   food |-> Len(w.foods),
   danger |-> Len(w.dangers),
   score |-> Max(0, w.score)]

\* mutant: spawnAll does not reset the total score
PopulateScored(W, s, g, c, e, fn, dn) ==
  [agents |-> [i \in 1..(g + c + e) |-> NewAgent(TypeOf(g, c, i), W, s, 5 * (i - 1))],
   foods |-> [i \in 1..fn |-> NewFood(i - 1, W, s, 5 * (g + c + e) + 5 * (i - 1))],
   dangers |-> [i \in 1..dn |->
                  NewDanger(i - 1, W, s, 5 * (g + c + e) + 5 * fn + 5 * (i - 1))],
   tick |-> 0,
   score |-> 10]

\* the world spawnAll builds from configuration cfg on a canvas W wide
Populate(W, s, g, c, e, fn, dn) ==
  [agents |-> [i \in 1..(g + c + e) |-> NewAgent(TypeOf(g, c, i), W, s, 5 * (i - 1))],
   foods |-> [i \in 1..fn |-> NewFood(i - 1, W, s, 5 * (g + c + e) + 5 * (i - 1))],
   dangers |-> [i \in 1..dn |->
                  NewDanger(i - 1, W, s, 5 * (g + c + e) + 5 * fn + 5 * (i - 1))],
   tick |-> 0,
   score |-> 0]

SpawnAll(cfg, W, s) ==
  Populate(W, s, GreedyN(cfg), CautiousN(cfg), ExplorerN(cfg), FoodN(cfg), DangerN(cfg))

----------------------------------------------------------------------------
(* stepOnce *)

\* one mobile item advanced by its velocity, reflected at the item margins
MoveItem(it, W) ==
  IF ~it.mobile THEN it
  ELSE LET x == it.x + it.vx
           y == it.y + it.vy
       IN [it EXCEPT
             !.x = x,
             !.y = y,
             !.vx = IF x < ItemMargin * U \/ x > W * U - ItemMargin * U
                      THEN -it.vx ELSE it.vx,
             !.vy = IF y < ItemMargin * U \/ y > CanvasH * U - ItemMargin * U
                      THEN -it.vy ELSE it.vy]

MoveItems(items, W) == [i \in 1..Len(items) |-> MoveItem(items[i], W)]

\* greedy: the index of the food maximising value - dist*0.02 (0: no food);
\* scores are in 1/10000, a later food replaces the best only if strictly better
\* mutant: a later food of equal score replaces the best
BetterOrEqual(sc, best, bestScore) == best = 0 \/ sc >= bestScore

\* if(s > bestScore), bestScore being -Infinity while there is no best
Better(sc, best, bestScore) == best = 0 \/ sc > bestScore

RECURSIVE BestFood(_, _, _, _, _)
BestFood(a, fs, i, best, bestScore) ==
  IF i > Len(fs) THEN best
  ELSE LET sc == fs[i].value * 10000 - 2 * Hypot(a.x - fs[i].x, a.y - fs[i].y)
       IN IF Better(sc, best, bestScore)
            THEN BestFood(a, fs, i + 1, i, sc)
            ELSE BestFood(a, fs, i + 1, best, bestScore)

\* a.vx += dx/m * 0.05, a.vy += dy/m * 0.05 with m = hypot(dx, dy) || 1
Accel(a, dx, dy, h) ==
  [a EXCEPT !.vx = @ + RoundDiv(5 * dx, IF h = 0 THEN U ELSE h),
            !.vy = @ + RoundDiv(5 * dy, IF h = 0 THEN U ELSE h)]

Toward(a, dx, dy) == Accel(a, dx, dy, Hypot(dx, dy))

SteerTo(a, fs, b) ==
  IF b = 0 THEN a ELSE Toward(a, fs[b].x - a.x, fs[b].y - a.y)

NoPull == [x |-> 0, y |-> 0]

\* the greedy branch with best food b: the decision made and its basis
GreedyDecide(a, fs, b, k) ==
  [a |-> SteerTo(a, fs, b), k |-> k, fled |-> FALSE, pull |-> NoPull,
   target |-> IF b = 0 THEN -1 ELSE fs[b].id]

\* cautious: the index of the nearest danger (0: none), the first one on ties
RECURSIVE NearDanger(_, _, _, _)
NearDanger(a, ds, i, near) ==
  IF i > Len(ds) THEN near
  ELSE IF near = 0 \/ Dist2(a, ds[i]) < Dist2(a, ds[near])
         THEN NearDanger(a, ds, i + 1, i)
         ELSE NearDanger(a, ds, i + 1, near)

\* if(near && nd < 120): a.vx += (a.x - near.x) * 0.003, likewise a.vy
InFleeRange(a, ds, n) ==
  n # 0 /\ Dist2(a, ds[n]) < (FleeRange * U) * (FleeRange * U)

FleeFrom(a, ds, n) ==
  IF InFleeRange(a, ds, n)
    THEN [a EXCEPT !.vx = @ + RoundDiv(3 * (a.x - ds[n].x), 1000),
                   !.vy = @ + RoundDiv(3 * (a.y - ds[n].y), 1000)]
    ELSE a

Flee(a, ds) == FleeFrom(a, ds, NearDanger(a, ds, 1, 0))

\* near && nd < 120
Flees(a, ds) == InFleeRange(a, ds, NearDanger(a, ds, 1, 0))

\* a.vx += (any.x - a.x) * 0.0008, likewise a.vy
AttractTo(a, any) ==
  [a EXCEPT !.vx = @ + RoundDiv(8 * (any.x - a.x), 10000),
            !.vy = @ + RoundDiv(8 * (any.y - a.y), 10000)]

\* small attraction to foods[floor(Math.random() * foods.length)]
Attract(a, fs, u) == AttractTo(a, fs[((u * Len(fs)) \div 100) + 1])

\* the cautious branch: a0 is the agent after the flee term, a1 after the
\* attraction to a random food
CautiousDecide(a0, a1, k, fled) ==
  [a |-> a1, k |-> k, fled |-> fled,
   pull |-> [x |-> a1.vx - a0.vx, y |-> a1.vy - a0.vy], target |-> -1]

\* the velocity change of agent a; k counts the draws made.  The record
\* returned holds the agent, k and the basis of the decision: fled (the flee
\* term was added), pull (the attraction to a random food that was added to
\* the velocity), target (the id of the food a greedy agent steers to, -1:
\* none)
Decide(a, fs, ds, s, k) ==
  IF a.type = "greedy" THEN GreedyDecide(a, fs, BestFood(a, fs, 1, 0, 0), k)
  ELSE IF a.type = "cautious" THEN
    IF Len(fs) > 0
      THEN CautiousDecide(Flee(a, ds), Attract(Flee(a, ds), fs, Rnd(s, k)),
                          k + 1, Flees(a, ds))
      ELSE CautiousDecide(Flee(a, ds), Flee(a, ds), k, Flees(a, ds))
  ELSE [a |-> [a EXCEPT !.vx = @ + Rand(-2, 2, Rnd(s, k)),
                        !.vy = @ + Rand(-2, 2, Rnd(s, k + 1))],
        k |-> k + 2, fled |-> FALSE, pull |-> NoPull, target |-> -1]

\* damp and move, then clamp to the agent margins
Advance(a, W) ==
  [a EXCEPT !.x = Clamp(a.x + a.vx, AgentMargin * U, W * U - AgentMargin * U),
            !.y = Clamp(a.y + a.vy, AgentMargin * U, CanvasH * U - AgentMargin * U)]

Damp(a) == [a EXCEPT !.vx = RoundDiv(98 * @, 100), !.vy = RoundDiv(98 * @, 100)]

Move(a, W) == Advance(Damp(a), W)

InRange(a, it) == Dist2(a, it) < (ContactRange * U) * (ContactRange * U)

RECURSIVE SumValue(_, _)
SumValue(fs, i) == IF i = 0 THEN 0 ELSE fs[i].value + SumValue(fs, i - 1)

\* mutant: a collected food is not spliced out
FoodsKept(a, fs) == fs

\* the foods left after agent a collected those in range
FoodsLeft(a, fs) == SelectSeq(fs, LAMBDA f : ~InRange(a, f))

\* the value agent a gains from the foods in range
SumAll(fs) == SumValue(fs, Len(fs))

FoodGain(a, fs) == SumAll(SelectSeq(fs, LAMBDA f : InRange(a, f)))

\* whether a danger in contact is removed, Math.random() = u/100
Removed(u) == u < 6

\* mutant: the agent's share of a contact is half the severity
PenaltyHalved(d) == d.severity \div 2

\* the penalty of one contact with danger d
Penalty(d) == d.severity

RemoveAt(seq, i) == SubSeq(seq, 1, i - 1) \o SubSeq(seq, i + 1, Len(seq))

\* the dangers, from the last to the first: each one in range penalises a and
\* is removed with probability 0.06; acc = [dangers, loss, k, hits]
RECURSIVE HazardLoop(_, _, _, _, _)
\* mutant: a danger that is removed on contact does not penalise
ContactSparesRemoved(ai, i, d, gone, acc) ==
  [dangers |-> IF gone THEN RemoveAt(acc.dangers, i) ELSE acc.dangers,
   loss |-> acc.loss + (IF gone THEN 0 ELSE Penalty(d)),
   k |-> acc.k + 1,
   hits |-> acc.hits \cup
     {[agent |-> ai, danger |-> d.id, severity |-> d.severity, removed |-> gone,
       x |-> d.x, y |-> d.y, mobile |-> d.mobile]}]

\* the contact of agent ai with the i-th danger d; gone: d is then removed
Contact(ai, i, d, gone, acc) ==
  [dangers |-> IF gone THEN RemoveAt(acc.dangers, i) ELSE acc.dangers,
   loss |-> acc.loss + Penalty(d),
   k |-> acc.k + 1,
   hits |-> acc.hits \cup
     {[agent |-> ai, danger |-> d.id, severity |-> d.severity, removed |-> gone,
       x |-> d.x, y |-> d.y, mobile |-> d.mobile]}]

HazardLoop(a, ai, i, s, acc) ==
  IF i = 0 THEN acc
  ELSE IF InRange(a, acc.dangers[i])
         THEN HazardLoop(a, ai, i - 1, s,
                Contact(ai, i, acc.dangers[i], Removed(Rnd(s, acc.k)), acc))
         ELSE HazardLoop(a, ai, i - 1, s, acc)

\* mutant: a contact is charged to the agent only
TotalledGainsOnly(st, gain, hz) == st.score + gain

\* the total score after an agent's interactions: score += value for each
\* food collected, score -= severity for each contact
Totalled(st, gain, hz) == st.score + gain - hz.loss

\* one agent of the agent loop: decide, move, collect, contact.
\* st = [agents, foods, dangers, score, k, collects, contacts, decisions]
Interact(st, ai, a, gain, hz) ==
  [agents |-> [st.agents EXCEPT ![ai] = [a EXCEPT !.score = @ + gain - hz.loss]],
   foods |-> FoodsLeft(a, st.foods),
   dangers |-> hz.dangers,
   score |-> Totalled(st, gain, hz),
   k |-> hz.k,
   collects |-> st.collects \cup
     {[agent |-> ai, food |-> st.foods[i].id, value |-> st.foods[i].value,
       x |-> st.foods[i].x, y |-> st.foods[i].y, mobile |-> st.foods[i].mobile] :
        i \in {j \in 1..Len(st.foods) : InRange(a, st.foods[j])}},
   contacts |-> st.contacts \cup hz.hits,
   decisions |-> st.decisions]

Moved(st, ai, s, a, k) ==
  Interact(st, ai, a, FoodGain(a, st.foods),
           HazardLoop(a, ai, Len(st.dangers), s,
                      [dangers |-> st.dangers, loss |-> 0, k |-> k, hits |-> {}]))

\* history: the basis of agent ai's decision
Noted(st, ai, dec) ==
  [st EXCEPT !.decisions = @ \cup
     {[agent |-> ai, fled |-> dec.fled, pull |-> dec.pull,
       target |-> dec.target]}]

Decided(st, ai, W, s, dec) ==
  Noted(Moved(st, ai, s, Move(dec.a, W), dec.k), ai, dec)

ProcessAgent(st, ai, W, s) ==
  Decided(st, ai, W, s, Decide(st.agents[ai], st.foods, st.dangers, s, st.k))

\* mutant: the agent loop runs from the last agent to the first
AgentOrderReversed(n) == [i \in 1..n |-> n + 1 - i]

\* the order in which the agent loop visits the agents
AgentOrder(n) == [i \in 1..n |-> i]

RECURSIVE AgentLoop(_, _, _, _, _)
AgentLoop(st, order, j, W, s) ==
  IF j > Len(order) THEN st
  ELSE AgentLoop(ProcessAgent(st, order[j], W, s), order, j + 1, W, s)

\* mutant: the step counts twice
NextTickTwice(t) == t + 2

\* the tick count after a step
NextTick(t) == t + 1

NoEvents == [collects |-> {}, contacts |-> {}, decisions |-> {}]

\* stepOnce on world w: [agents, foods, dangers, tick, score, ev]
Stepped(w, st) ==
  [agents |-> st.agents, foods |-> st.foods, dangers |-> st.dangers,
   tick |-> NextTick(w.tick), score |-> st.score,
   ev |-> [collects |-> st.collects, contacts |-> st.contacts,
           decisions |-> st.decisions]]

ItemsAfter(r, W) ==
  [r EXCEPT !.foods = MoveItems(@, W), !.dangers = MoveItems(@, W)]

\* mutant: the agent loop runs first and the mobile items move after it
StepOnceItemsLast(w, W, s) ==
  ItemsAfter(Stepped(w, AgentLoop([agents |-> w.agents,
                                   foods |-> w.foods,
                                   dangers |-> w.dangers,
                                   score |-> w.score, k |-> 0,
                                   collects |-> {}, contacts |-> {},
                                   decisions |-> {}],
                                  AgentOrder(Len(w.agents)), 1, W, s)), W)

\* the mobile items move, then the agent loop runs on the moved items
StepOnce(w, W, s) ==
  Stepped(w, AgentLoop([agents |-> w.agents,
                        foods |-> MoveItems(w.foods, W),
                        dangers |-> MoveItems(w.dangers, W),
                        score |-> w.score, k |-> 0,
                        collects |-> {}, contacts |-> {}, decisions |-> {}],
                       AgentOrder(Len(w.agents)), 1, W, s))

World == [agents |-> agents, foods |-> foods, dangers |-> dangers,
          tick |-> tick, score |-> score]

----------------------------------------------------------------------------
(* Handlers *)

\* spawnAll tabulated over the inputs of the model
Spawned == [cfg \in Configs, W \in Widths, s \in Streams |-> SpawnAll(cfg, W, s)]

Did(op, stepped, bumped) == [op |-> op, stepOnce |-> stepped, loopTick |-> bumped]

SetWorld(w) ==
  /\ agents' = w.agents
  /\ foods' = w.foods
  /\ dangers' = w.dangers
  /\ tick' = w.tick
  /\ score' = w.score
  /\ stats' = StatsOf(w)

TakeStep(op, w) == SetWorld(w) /\ ev' = w.ev /\ last' = Did(op, 1, 0)

\* the rendering branch of loop(): schedule the next call
Schedule(rl, orp, tm) ==
  IF Len(agents) <= DemoLimit
    THEN /\ raf' = "id"
         /\ rafLive' = TRUE
         /\ orphans' = orp + (IF rl THEN 1 ELSE 0)
         /\ timers' = tm
    ELSE /\ raf' = "null"
         /\ rafLive' = (IF raf = "id" THEN FALSE ELSE rl)
         /\ orphans' = orp
         /\ timers' = tm + 1

\* loop() returning at once: if(!running) return
Idle(op, rl, orp, tm) ==
  /\ UNCHANGED <<agents, foods, dangers, tick, score, stats, raf>>
  /\ rafLive' = rl /\ orphans' = orp /\ timers' = tm
  /\ ev' = NoEvents
  /\ last' = Did(op, 0, 0)

\* mutant: the demo threshold used in place of the stepping threshold
StepsHereDemoOnly(n) == n <= DemoLimit

\* whether loop() steps the world itself (agents.length <= 500)
StepsHere(n) == n <= StepLimit

\* one iteration of loop(): a simulation step, then the rendering branch
Iterate(op, s, rl, orp, tm) ==
  /\ tick < MaxTick
  /\ IF StepsHere(Len(agents))
       THEN TakeStep(op, StepOnce(World, width, s))
       ELSE /\ tick' = tick + 1
            /\ stats' = StatsOf([World EXCEPT !.tick = tick + 1])
            /\ UNCHANGED <<agents, foods, dangers, score>>
            /\ ev' = NoEvents
            /\ last' = Did(op, 0, 1)
  /\ Schedule(rl, orp, tm)

\* mutant: loop() without its first line, if(!running) return
LoopUnguarded(op, s, run, rl, orp, tm) == Iterate(op, s, rl, orp, tm)

\* loop(), called by handler op with running = run and the callbacks rl, orp,
\* tm pending at the call
Loop(op, s, run, rl, orp, tm) ==
  IF ~run THEN Idle(op, rl, orp, tm) ELSE Iterate(op, s, rl, orp, tm)

SpawnClick ==
  \E cfg \in Configs, s \in Streams :
    /\ SetWorld(Spawned[cfg, width, s])
    /\ ev' = NoEvents
    /\ last' = Did("spawn", 0, 0)
    /\ inputs' = cfg
    /\ UNCHANGED <<running, raf, rafLive, orphans, timers, width, twin, net>>

StartClick ==
  /\ (IF rafLive THEN 1 ELSE 0) + orphans + timers < MaxPending
  /\ \E s \in Streams :
       IF ~running
         THEN running' = TRUE /\ Loop("start", s, TRUE, rafLive, orphans, timers)
         ELSE /\ UNCHANGED <<agents, foods, dangers, tick, score, stats, running,
                             raf, rafLive, orphans, timers>>
              /\ ev' = NoEvents
              /\ last' = Did("start", 0, 0)
  /\ UNCHANGED <<width, twin, inputs, net>>

PauseClick ==
  /\ running' = FALSE
  /\ IF raf = "id" THEN raf' = "null" /\ rafLive' = FALSE
                   ELSE UNCHANGED <<raf, rafLive>>
  /\ ev' = NoEvents
  /\ last' = Did("pause", 0, 0)
  /\ UNCHANGED <<agents, foods, dangers, tick, score, stats, orphans, timers,
                 width, twin, inputs, net>>

\* the animation frame whose id raf holds
FrameCallback ==
  /\ rafLive
  /\ \E s \in Streams : Loop("frame", s, running, FALSE, orphans, timers)
  /\ UNCHANGED <<running, width, twin, inputs, net>>

\* an animation frame requested earlier whose id was overwritten
OrphanCallback ==
  /\ orphans > 0
  /\ \E s \in Streams : Loop("frame", s, running, rafLive, orphans - 1, timers)
  /\ UNCHANGED <<running, width, twin, inputs, net>>

TimerCallback ==
  /\ timers > 0
  /\ \E s \in Streams : Loop("timer", s, running, rafLive, orphans, timers - 1)
  /\ UNCHANGED <<running, width, twin, inputs, net>>

\* window resize: only the canvas changes
Resize ==
  /\ \E W \in Widths \ {width} : width' = W
  /\ ev' = NoEvents
  /\ last' = Did("resize", 0, 0)
  /\ UNCHANGED <<agents, foods, dangers, running, tick, score, raf, rafLive,
                 orphans, timers, stats, twin, inputs, net>>

InitWorld(w) ==
  /\ agents = w.agents
  /\ foods = w.foods
  /\ dangers = w.dangers
  /\ tick = w.tick
  /\ score = w.score
  /\ stats = StatsOf(w)

Init ==
  /\ width \in Widths
  /\ inputs \in Configs
  /\ \E s \in Streams : InitWorld(Spawned[inputs, width, s])
  /\ running = FALSE
  /\ raf = "null"
  /\ rafLive = FALSE
  /\ orphans = 0
  /\ timers = 0
  /\ last = Did("init", 0, 0)
  /\ ev = NoEvents
  /\ twin = <<>>
  /\ net = <<>>

Next ==
  \/ SpawnClick
  \/ StartClick
  \/ PauseClick
  \/ FrameCallback
  \/ OrphanCallback
  \/ TimerCallback
  \/ Resize

Spec == Init /\ [][Next]_vars

----------------------------------------------------------------------------
(* Two independent runs of the same configuration on the same canvas: the  *)
(* variables of the module are the first run, twin is the second.  Each    *)
(* run draws from Math.random() on its own.                                *)

WorldOf(w) == [agents |-> w.agents, foods |-> w.foods, dangers |-> w.dangers,
               tick |-> w.tick, score |-> w.score]

InitTwin ==
  /\ width \in Widths
  /\ inputs \in Configs
  /\ \E s1 \in Streams, s2 \in Streams :
       /\ InitWorld(Spawned[inputs, width, s1])
       /\ twin = Spawned[inputs, width, s2]
  /\ net = <<>>
  /\ running = FALSE
  /\ raf = "null"
  /\ rafLive = FALSE
  /\ orphans = 0
  /\ timers = 0
  /\ last = Did("init", 0, 0)
  /\ ev = NoEvents

TwinSpawn ==
  \E cfg \in Configs, s1 \in Streams, s2 \in Streams :
    /\ SetWorld(Spawned[cfg, width, s1])
    /\ twin' = Spawned[cfg, width, s2]
    /\ ev' = NoEvents
    /\ last' = Did("spawn", 0, 0)
    /\ inputs' = cfg
    /\ UNCHANGED <<running, raf, rafLive, orphans, timers, width, net>>

TwinStep ==
  /\ tick < MaxTick
  /\ StepsHere(Len(agents))
  /\ \E s1 \in Streams, s2 \in Streams :
       /\ TakeStep("step", StepOnce(World, width, s1))
       /\ twin' = WorldOf(StepOnce(twin, width, s2))
  /\ UNCHANGED <<running, raf, rafLive, orphans, timers, width, inputs, net>>

NextTwin == TwinSpawn \/ TwinStep

SpecTwin == InitTwin /\ [][NextTwin]_vars

----------------------------------------------------------------------------
(* Message router.  The routing code of the repository (the priority queue *)
(* with a bit budget that src/replit.md:69-73 describes) is not among the  *)
(* sources; it is modelled from spec.md 4.1 (steps 1, 2 and 5) and 4.2.    *)
(* One tick is three steps: the percepts are computed from the previous    *)
(* tick's deliveries, the strategies hand in their candidates, the router  *)
(* admits candidates within the budget and the tick ends.  Encoded sizes   *)
(* are positive.  The delivery-rate statistic is not modelled.             *)

Senders == 1..3
Scores == 1..2
Sizes == 1..2

\* bandwidth_bits: a number of bits per tick, or unset (unconstrained)
Unset == [unset |-> TRUE, bits |-> 0]
Bits(b) == [unset |-> FALSE, bits |-> b]
Bandwidths == {Unset} \cup {Bits(b) : b \in 0..MaxBits}

\* what one strategy hands in in a tick: a message or nothing
Silent == [score |-> 0, bits |-> 0]
Offers == [score : Scores, bits : Sizes] \cup {Silent}

Message(a, o, t) == [sender |-> a, score |-> o.score, bits |-> o.bits, tick |-> t]

Candidates(f, t) == {Message(a, f[a], t) : a \in {b \in Senders : f[b] # Silent}}

\* descending score, the lower sender id first on ties
Before(m, n) == m.score > n.score \/ (m.score = n.score /\ m.sender < n.sender)

First(cands) == CHOOSE m \in cands : \A n \in cands \ {m} : Before(m, n)

\* mutant: every candidate fits
FitsAlways(m, bw) == TRUE

\* mutant: a candidate that uses up the budget exactly does not fit
FitsStrictly(m, bw) == bw.unset \/ m.bits < bw.bits

\* whether message m does not exceed the remaining budget bw
Fits(m, bw) == bw.unset \/ m.bits <= bw.bits

Spend(bw, m) == IF bw.unset THEN bw ELSE [bw EXCEPT !.bits = @ - m.bits]

RECURSIVE Admit(_, _)
\* mutant: a candidate that does not fit is skipped and admission goes on
AdmitSkipping(m, cands, bw) ==
  IF Fits(m, bw) THEN {m} \cup Admit(cands \ {m}, Spend(bw, m))
                 ELSE Admit(cands \ {m}, bw)

\* admission from the first candidate m on: it stops at the first candidate
\* that would exceed the remaining budget
AdmitFrom(m, cands, bw) ==
  IF Fits(m, bw) THEN {m} \cup Admit(cands \ {m}, Spend(bw, m)) ELSE {}

Admit(cands, bw) == IF cands = {} THEN {} ELSE AdmitFrom(First(cands), cands, bw)

\* the messages the router delivers out of cands under bandwidth bw
Route(cands, bw) == Admit(cands, bw)

\* mutant: the candidates not delivered wait for the next tick
LeftoverQueued(cands, delivered) == cands \ delivered

\* what the router keeps of the candidates it did not deliver: nothing
Leftover(cands, delivered) == {}

engine == <<agents, foods, dangers, running, tick, score, raf, rafLive,
            orphans, timers, width, stats, last, ev, twin, inputs>>

\* step 1: each percept holds the messages delivered in the previous tick's
\* routing pass
Perceive ==
  /\ net.phase = "perceive"
  /\ net' = [net EXCEPT !.phase = "decide", !.inbox = net.routed,
                        !.routed = {}, !.offered = {}]
  /\ UNCHANGED engine

\* step 2: every strategy hands in a candidate message or nothing
Generate ==
  /\ net.phase = "decide"
  /\ \E f \in [Senders -> Offers] :
       net' = [net EXCEPT !.phase = "route",
                          !.outbox = @ \cup Candidates(f, net.tick)]
  /\ UNCHANGED engine

Routed(n, delivered) ==
  [n EXCEPT !.phase = "perceive", !.tick = @ + 1, !.inbox = {},
            !.offered = n.outbox, !.routed = delivered,
            !.outbox = Leftover(n.outbox, delivered)]

\* step 5: the router schedules the candidates of the tick; the tick ends
RouteTick ==
  /\ net.phase = "route"
  /\ net.tick < MaxTick
  /\ net' = Routed(net, Route(net.outbox, net.bandwidth))
  /\ UNCHANGED engine

InitRouter ==
  /\ width = 100
  /\ inputs = Cfg(Num(1), Num(100), Num(0), Num(0), Num(1), Num(1))
  /\ InitWorld(Spawned[inputs, width, 1])
  /\ running = FALSE
  /\ raf = "null"
  /\ rafLive = FALSE
  /\ orphans = 0
  /\ timers = 0
  /\ last = Did("init", 0, 0)
  /\ ev = NoEvents
  /\ twin = <<>>
  /\ \E bw \in Bandwidths :
       net = [tick |-> 0, phase |-> "perceive", bandwidth |-> bw, inbox |-> {},
              outbox |-> {}, offered |-> {}, routed |-> {}]

NextRouter == Perceive \/ Generate \/ RouteTick

SpecRouter == InitRouter /\ [][NextRouter]_vars

----------------------------------------------------------------------------
(* Claims *)

\* C1: two runs started from the same configuration have equal histories:
\* after spawn and after every tick the agents (positions, scores), the
\* remaining foods and dangers, the tick and the score are equal in both runs.
C1_Determinism == twin = World

C3_StepAddsOneTick == [][last'.stepOnce = 1 => tick' = tick + 1]_vars

\* a step in which a food was collected and a danger removed, leaving no food
C3_Witness ==
  /\ last.stepOnce = 1
  /\ ev.collects # {}
  /\ \E c \in ev.contacts : c.removed
  /\ Len(foods) = 0

RECURSIVE SumValues(_)
SumValues(S) ==
  IF S = {} THEN 0
  ELSE LET c == CHOOSE c \in S : TRUE IN c.value + SumValues(S \ {c})

RECURSIVE SumSeverities(_)
SumSeverities(S) ==
  IF S = {} THEN 0
  ELSE LET c == CHOOSE c \in S : TRUE IN c.severity + SumSeverities(S \ {c})

Ids(items) == {items[i].id : i \in 1..Len(items)}

\* what the events e of a step give and take from agent i
EventDelta(e, i) ==
  SumValues({c \in e.collects : c.agent = i})
    - SumSeverities({c \in e.contacts : c.agent = i})

\* C4: over any handler other than a reset the set of agents stays, and each
\* agent's score changes by the values of the foods it collected in that
\* handler's step minus the severities of the dangers it was in contact with
\* (each event being a food or danger within contact range of the agent);
\* a handler that does not step changes no agent at all.
C4_ScoreOnlyByCollectAndContact ==
  [][last'.op # "spawn" =>
       IF last'.stepOnce = 0
         THEN agents' = agents /\ ev' = NoEvents
         ELSE /\ Len(agents') = Len(agents)
              /\ \A c \in ev'.collects \cup ev'.contacts :
                   /\ c.agent \in 1..Len(agents)
                   /\ InRange(agents'[c.agent], c)
              /\ \A c \in ev'.collects : c.food \in Ids(foods) \ Ids(foods')
              /\ \A c \in ev'.contacts : c.danger \in Ids(dangers)
              /\ \A i \in 1..Len(agents) :
                   agents'[i].score - agents[i].score = EventDelta(ev', i)]_vars

\* a step in which one agent both collected a food and touched a danger and
\* ended with a negative score
C4_Witness ==
  /\ last.stepOnce = 1
  /\ \E c \in ev.collects : \E d \in ev.contacts :
       c.agent = d.agent /\ agents[c.agent].score < 0

\* C5: over any handler other than a reset no food appears; a food that
\* disappears does so in a step, with exactly one collection event, of its
\* value and for one agent, whose score rose by it; and every collection is
\* of a food that disappears: none is credited while it stays in the world.
C5_CollectedExactlyOnce ==
  [][last'.op # "spawn" =>
       /\ Ids(foods') \subseteq Ids(foods)
       /\ \A i \in 1..Len(foods) :
            foods[i].id \notin Ids(foods') =>
              /\ last'.stepOnce = 1
              /\ Cardinality({c \in ev'.collects : c.food = foods[i].id}) = 1
              /\ \A c \in ev'.collects :
                   c.food = foods[i].id =>
                     /\ c.value = foods[i].value
                     /\ agents'[c.agent].score - agents[c.agent].score
                          = EventDelta(ev', c.agent)
       /\ \A c \in ev'.collects : c.food \in Ids(foods) \ Ids(foods')
       /\ score' - score =
            SumValues(ev'.collects) - SumSeverities(ev'.contacts)]_vars

\* a collected food that was within range of a second agent in the same tick
C5_Witness ==
  /\ last.stepOnce = 1
  /\ \E c \in ev.collects : \E j \in 1..Len(agents) :
       j # c.agent /\ InRange(agents[j], c)

\* C6: over any handler other than a reset no danger appears; a danger that
\* disappears does so in a step in which an agent within range of it was
\* penalised; every agent within range of a danger that stays is penalised by
\* its severity; and every contact, removing the danger or not, is in the
\* agent's score.
C6_RemovedOnlyOnContact ==
  [][last'.op # "spawn" =>
       /\ Ids(dangers') \subseteq Ids(dangers)
       /\ \A i \in 1..Len(dangers) :
            dangers[i].id \notin Ids(dangers') =>
              /\ last'.stepOnce = 1
              /\ \E c \in ev'.contacts :
                   /\ c.danger = dangers[i].id
                   /\ c.removed
                   /\ c.severity = dangers[i].severity
                   /\ InRange(agents'[c.agent], c)
       /\ last'.stepOnce = 1 =>
            \A i \in 1..Len(dangers') : \A j \in 1..Len(agents') :
              InRange(agents'[j], dangers'[i]) =>
                \E c \in ev'.contacts :
                  /\ c.agent = j /\ c.danger = dangers'[i].id /\ ~c.removed
                  /\ c.severity = dangers'[i].severity
       /\ \A c \in ev'.contacts :
            agents'[c.agent].score - agents[c.agent].score
              = EventDelta(ev', c.agent)]_vars

\* a step with a contact that removed the danger and one that did not
C6_Witness ==
  /\ last.stepOnce = 1
  /\ \E c \in ev.contacts : c.removed
  /\ \E c \in ev.contacts : ~c.removed

InWorld(p) ==
  /\ 0 <= p.x /\ p.x <= width * U
  /\ 0 <= p.y /\ p.y <= CanvasH * U

\* C7 as stated: in every reachable state every agent lies within the current
\* world bounds.
C7_AgentsInBounds == \A i \in 1..Len(agents) : InWorld(agents[i])

\* C8 as stated: after every step every mobile food and danger lies within
\* the world bounds.
C8_MobileItemsInBounds ==
  last.stepOnce = 1 =>
    /\ \A i \in 1..Len(foods) : foods[i].mobile => InWorld(foods[i])
    /\ \A i \in 1..Len(dangers) : dangers[i].mobile => InWorld(dangers[i])

\* C9: the pause handler leaves the simulation stopped and the world as it
\* was; while it is stopped no handler other than start and spawn steps or
\* changes the tick, the agents, the foods, the dangers or the score.
C9_PausedMeansFrozen ==
  [][/\ last'.op = "pause" =>
          ~running' /\ UNCHANGED <<agents, foods, dangers, tick, score>>
     /\ (~running /\ last'.op \notin {"start", "spawn"}) =>
          /\ ~running'
          /\ last'.stepOnce = 0
          /\ last'.loopTick = 0
          /\ UNCHANGED <<agents, foods, dangers, tick, score>>]_vars

\* a loop callback that was pending when pause was clicked has run, after
\* some ticks, with the simulation stopped
C9_Witness ==
  /\ ~running
  /\ last.op \in {"frame", "timer"}
  /\ tick > 0

\* C10: the agents are processed in creation order, one after the other: a
\* food collected in a step went to the first agent of the list whose position
\* after the step is within range of it.
C10_LowestAgentCollects ==
  \A c \in ev.collects : \A j \in 1..Len(agents) :
    InRange(agents[j], c) => c.agent <= j

\* a food collected by an agent while a later agent was within range of it
C10_Witness ==
  \E c \in ev.collects : \E j \in 1..Len(agents) :
    j > c.agent /\ InRange(agents[j], c)

\* a field a configuration must not have: a count that is not a number or is
\* below its least value
BadCount(n, least) == n.nan \/ n.v < least

\* a proportion that is not a number or is negative
BadShare(p) == p.nan \/ p.v < 0

\* an invalid configuration: agent count not positive, food or danger count
\* negative, or proportions that cannot be normalised
Invalid(cfg) ==
  \/ BadCount(cfg.agentCount, 1)
  \/ BadCount(cfg.foodCount, 0)
  \/ BadCount(cfg.dangerCount, 0)
  \/ BadShare(cfg.pGreedy) \/ BadShare(cfg.pCautious) \/ BadShare(cfg.pExplorer)
  \/ cfg.pGreedy.v + cfg.pCautious.v + cfg.pExplorer.v = 0

\* C11 as stated: an invalid configuration is rejected before any tick: no
\* world is spawned from it (no agent, food or danger exists) and the run
\* never starts on it (it is not running and no tick has executed).
C11_InvalidConfigRejected ==
  Invalid(inputs) =>
    /\ Len(agents) = 0 /\ Len(foods) = 0 /\ Len(dangers) = 0
    /\ ~running
    /\ tick = 0

RECURSIVE TotalBits(_)
TotalBits(S) ==
  IF S = {} THEN 0
  ELSE LET m == CHOOSE m \in S : TRUE IN m.bits + TotalBits(S \ {m})

\* C12: the messages delivered in a tick, and so the messages in the percepts
\* of the next, are candidates of that tick whose sizes sum to at most
\* bandwidth_bits; with bandwidth_bits = 0 none is delivered.
C12_BudgetRespected ==
  /\ net.routed \subseteq net.offered
  /\ ~net.bandwidth.unset =>
       /\ TotalBits(net.routed) <= net.bandwidth.bits
       /\ TotalBits(net.inbox) <= net.bandwidth.bits
       /\ net.bandwidth.bits = 0 => net.routed = {} /\ net.inbox = {}

\* a routing pass that used up a positive budget and dropped a candidate
C12_Witness ==
  /\ ~net.bandwidth.unset
  /\ net.bandwidth.bits > 0
  /\ TotalBits(net.routed) = net.bandwidth.bits
  /\ net.offered \ net.routed # {}

\* C13: when bandwidth_bits is unset or at least the sum of the sizes of the
\* candidates of a tick, every candidate of the tick is delivered.
C13_AmpleBudgetDeliversAll ==
  (net.bandwidth.unset \/ TotalBits(net.offered) <= net.bandwidth.bits) =>
    /\ net.routed = net.offered
    /\ Cardinality(net.routed) = Cardinality(net.offered)

\* three candidates whose sizes sum to exactly the budget, all delivered
C13_Witness ==
  /\ ~net.bandwidth.unset
  /\ Cardinality(net.offered) = 3
  /\ TotalBits(net.offered) = net.bandwidth.bits
  /\ net.routed = net.offered

\* C14: among the candidates of a tick, if A comes before B (higher score, or
\* equal score and lower sender id) and A and B together fit within the
\* budget, then A is delivered whenever B is.
C14_MonotonicAdmission ==
  \A A \in net.offered : \A B \in net.offered :
    (/\ Before(A, B)
     /\ net.bandwidth.unset \/ A.bits + B.bits <= net.bandwidth.bits
     /\ B \in net.routed) => A \in net.routed

\* a pass in which a candidate was dropped although it and a dropped candidate
\* of lower score would together have fitted within the budget
C14_Witness ==
  /\ ~net.bandwidth.unset
  /\ net.routed # {}
  /\ \E A \in net.offered \ net.routed : \E B \in net.offered \ net.routed :
       /\ A.score > B.score
       /\ A.bits + B.bits <= net.bandwidth.bits
       /\ B.bits <= net.bandwidth.bits - TotalBits(net.routed)

\* C15: a message generated in tick t is in no percept of tick t; it is in
\* the percepts of tick t + 1 only, and only if the router delivered it in
\* tick t; the router only ever handles and delivers messages of the running
\* tick, so a message not delivered in its own tick is never delivered later.
C15_OneTickLatencyNoCarryOver ==
  [][/\ \A m \in net'.inbox : m.tick + 1 = net'.tick
     /\ \A m \in net'.outbox : m.tick = net'.tick /\ m \notin net'.inbox
     /\ \A m \in net'.routed : m.tick + 1 = net'.tick /\ m \in net'.offered
     /\ net'.inbox # net.inbox => net'.inbox \in {{}, net.routed}
     /\ net'.routed # net.routed => net'.routed \subseteq net.outbox]_vars

\* in the second tick the percepts hold a delivered message of the first tick
\* while another message of the first tick was dropped, and new candidates
\* are waiting for the router
C15_Witness ==
  /\ net.tick = 1
  /\ net.phase = "route"
  /\ net.inbox # {}
  /\ Cardinality(net.inbox) < 3
  /\ net.outbox # {}

AllGreedy == \A i \in 1..Len(agents) : agents[i].type = "greedy"

RECURSIVE SumItemValues(_)
\* the values of the first n foods spawnAll creates: 10, 6, 2, 10, ...
SumItemValues(n) == IF n = 0 THEN 0 ELSE ItemValue(n - 1) + SumItemValues(n - 1)

\* some position an agent can take is within contact range of item f
Collectable(f) ==
  /\ f.x > (AgentMargin - ContactRange) * U
  /\ f.x < (width - AgentMargin + ContactRange) * U
  /\ f.y > (AgentMargin - ContactRange) * U
  /\ f.y < (CanvasH - AgentMargin + ContactRange) * U

\* C16 as stated, in what it requires of every state: in a run whose agents
\* are all greedy and that was spawned without dangers, every food still in
\* the world can be collected (an agent can come within contact range of it),
\* no message is delivered, and the total score and the values of the foods
\* left add up to the initial food values, so that the total is their sum
\* once the last food is collected.
C16_GreedyCollectsAll ==
  (AllGreedy /\ DangerN(inputs) = 0) =>
    /\ \A i \in 1..Len(foods) : Collectable(foods[i])
    /\ net = <<>>
    /\ score + SumAll(foods) = SumItemValues(FoodN(inputs))

\* the labels other than the score show the engine's current values
CountsCurrent ==
  /\ stats.tick = tick
  /\ stats.agents = Len(agents)
  /\ stats.food = Len(foods)
  /\ stats.danger = Len(dangers)

\* C17 as stated: in every reachable state the published snapshot (tick,
\* number of agents, of foods, of dangers, total score) equals the engine's
\* current values, also when the total score is negative.
C17_SnapshotEqualsState == CountsCurrent /\ stats.score = score

\* C17 amended: in every reachable state the published tick and the numbers
\* of agents, foods and dangers equal the engine's current values, and the
\* published score is the total score when that is not negative and 0 when
\* it is negative; no handler leaves the snapshot behind the state.
C17_SnapshotCurrentScoreFloored ==
  /\ CountsCurrent
  /\ score >= 0 => stats.score = score
  /\ score < 0 => stats.score = 0

\* the second step of a run has left the total score negative
C17_Witness ==
  /\ last.stepOnce = 1
  /\ score < 0
  /\ stats.score = 0
  /\ tick = 2

\* the position of item it at the start of a tick
AtStart(it) == [x |-> it.x, y |-> it.y]

\* the position of item it once it has advanced by its velocity
Advanced(it) ==
  [x |-> it.x + (IF it.mobile THEN it.vx ELSE 0),
   y |-> it.y + (IF it.mobile THEN it.vy ELSE 0)]

\* over a step the collisions are resolved with every item at position Pos:
\* a collection or contact is recorded at that position, within range of the
\* agent; a food stays exactly if no agent ends within range of that
\* position; an agent that ends within range of that position of a danger
\* that stays was in contact with it
ResolvedAgainst(Pos(_)) ==
  /\ \A i \in 1..Len(foods) :
       /\ \A c \in ev'.collects :
            c.food = foods[i].id =>
              /\ c.x = Pos(foods[i]).x /\ c.y = Pos(foods[i]).y
              /\ InRange(agents'[c.agent], Pos(foods[i]))
       /\ foods[i].id \in Ids(foods') <=>
            \A j \in 1..Len(agents') : ~InRange(agents'[j], Pos(foods[i]))
  /\ \A i \in 1..Len(dangers) :
       /\ \A c \in ev'.contacts :
            c.danger = dangers[i].id =>
              /\ c.x = Pos(dangers[i]).x /\ c.y = Pos(dangers[i]).y
              /\ InRange(agents'[c.agent], Pos(dangers[i]))
       /\ dangers[i].id \in Ids(dangers') =>
            \A j \in 1..Len(agents') :
              InRange(agents'[j], Pos(dangers[i])) =>
                \E c \in ev'.contacts : c.agent = j /\ c.danger = dangers[i].id

\* over a step every item that stays has advanced by its velocity
ItemsAdvanced ==
  /\ \A k \in 1..Len(foods') : \A i \in 1..Len(foods) :
       foods[i].id = foods'[k].id => AtStart(foods'[k]) = Advanced(foods[i])
  /\ \A k \in 1..Len(dangers') : \A i \in 1..Len(dangers) :
       dangers[i].id = dangers'[k].id => AtStart(dangers'[k]) = Advanced(dangers[i])

\* C18 as stated: in a step the collisions of the agents with foods and
\* dangers are resolved against the item positions of the start of the tick,
\* and the mobile items have advanced by their velocity when the step ends.
C18_CollisionsAtStartPositions ==
  [][last'.stepOnce = 1 => ResolvedAgainst(AtStart) /\ ItemsAdvanced]_vars

\* C18 amended: in a step the mobile items advance by their velocity first,
\* and the collisions of the agents with foods and dangers are resolved
\* against the positions the items have after that advance.
C18_CollisionsAtAdvancedPositions ==
  [][last'.stepOnce = 1 => ResolvedAgainst(Advanced) /\ ItemsAdvanced]_vars

\* a step in which a mobile food was collected, a mobile danger was touched
\* and stayed, and an immobile food stayed
C18_Witness ==
  /\ last.stepOnce = 1
  /\ \E c \in ev.collects : c.mobile
  /\ \E c \in ev.contacts : c.mobile /\ ~c.removed
  /\ \E i \in 1..Len(foods) : ~foods[i].mobile

\* C19 as stated: in a step in which a danger is within the flee range of a
\* cautious agent, the agent's velocity change holds the flee term and no
\* attraction to a food; the attraction to a random food is added only when
\* no danger is within the flee range.
C19_NoAttractionWhileFleeing ==
  \A d \in ev.decisions :
    (agents[d.agent].type = "cautious" /\ d.fled) => d.pull = NoPull

\* value - dist * 0.02 of food f for agent a, in 1/10000, f having advanced
GreedyScoreAt(a, f) ==
  f.value * 10000 - 2 * Hypot(a.x - Advanced(f).x, a.y - Advanced(f).y)

\* the food of the highest score for agent a, the earliest-listed on ties
BestListed(a) ==
  CHOOSE b \in 1..Len(foods) :
    \A j \in 1..Len(foods) :
      /\ GreedyScoreAt(a, foods[j]) <= GreedyScoreAt(a, foods[b])
      /\ j < b => GreedyScoreAt(a, foods[j]) < GreedyScoreAt(a, foods[b])

\* over a step agent i's velocity is damped and otherwise unchanged
Coasts(i) ==
  /\ agents'[i].vx = Damp(agents[i]).vx
  /\ agents'[i].vy = Damp(agents[i]).vy

\* over a step agent i's velocity gains 0.05 in the direction of point p
SteersToward(i, p) ==
  /\ agents'[i].vx = Damp(Toward(agents[i], p.x - agents[i].x, p.y - agents[i].y)).vx
  /\ agents'[i].vy = Damp(Toward(agents[i], p.x - agents[i].x, p.y - agents[i].y)).vy

\* C20: in a step, a greedy agent that decides while all foods of the tick
\* are present (the first agent, or any agent of a step without collection)
\* steers to the food of the highest value - distance discount, the earliest
\* listed on ties, whatever dangers exist and wherever they are; with no
\* food it does not steer.
C20_GreedySteersToBestFood ==
  [][last'.stepOnce = 1 =>
       \A i \in 1..Len(agents) :
         (agents[i].type = "greedy" /\ (i = 1 \/ ev'.collects = {})) =>
           /\ \E d \in ev'.decisions : d.agent = i
           /\ \A d \in ev'.decisions :
                d.agent = i =>
                  IF Len(foods) = 0
                    THEN d.target = -1 /\ Coasts(i)
                    ELSE /\ d.target = foods[BestListed(agents[i])].id
                         /\ SteersToward(i, Advanced(foods[BestListed(agents[i])]))]_vars

\* a step in which the first agent, greedy, steered to one of several foods
\* while a danger was within 120px of it but not in contact
C20_Witness ==
  /\ last.stepOnce = 1
  /\ agents[1].type = "greedy"
  /\ \E d \in ev.decisions : d.agent = 1 /\ d.target >= 0
  /\ Len(foods) >= 2
  /\ \E k \in 1..Len(dangers) :
       /\ ~InRange(agents[1], dangers[k])
       /\ Dist2(agents[1], dangers[k]) < (FleeRange * U) * (FleeRange * U)

\* the run-loop callbacks that are pending
Pending == (IF rafLive THEN 1 ELSE 0) + orphans + timers

\* C21 as stated: whatever the start, pause and spawn clicks and the callbacks
\* that ran, at most one run-loop callback is pending, and a start click
\* while running schedules nothing.
C21_SinglePendingCallback ==
  /\ Pending <= 1
  /\ (last.op = "start" /\ last.stepOnce = 0 /\ last.loopTick = 0) => running

\* max(1, floor(agentCount)) for an agent count that is a number
Requested(n) == IF n.v < 1 THEN 1 ELSE n.v

\* C22 as stated: after spawnAll with a numeric agent count the number of
\* agents is N = max(1, floor(agentCount)), whatever the strategy mix: the
\* greedy, cautious and explorer agents created are N in all.
C22_AgentCountIsRequested ==
  (last.op \in {"init", "spawn"} /\ ~inputs.agentCount.nan) =>
    /\ Len(agents) = Requested(inputs.agentCount)
    /\ Cardinality({i \in 1..Len(agents) : agents[i].type = "greedy"})
         + Cardinality({i \in 1..Len(agents) : agents[i].type = "cautious"})
         + Cardinality({i \in 1..Len(agents) : agents[i].type = "explorer"})
           = Requested(inputs.agentCount)

\* C23 as stated: after spawnAll with a food count and a danger count that
\* are non-negative numbers, the world holds exactly that many foods and that
\* many dangers, also when a count is 0.
C23_ItemCountsAsConfigured ==
  last.op \in {"init", "spawn"} =>
    /\ (~inputs.foodCount.nan /\ inputs.foodCount.v >= 0) =>
         Len(foods) = inputs.foodCount.v
    /\ (~inputs.dangerCount.nan /\ inputs.dangerCount.v >= 0) =>
         Len(dangers) = inputs.dangerCount.v

RECURSIVE SumScores(_, _, _)
\* the scores of agents lo..hi added up, by halves
SumScores(as, lo, hi) ==
  IF lo > hi THEN 0
  ELSE IF lo = hi THEN as[lo].score
  ELSE SumScores(as, lo, (lo + hi) \div 2) + SumScores(as, (lo + hi) \div 2 + 1, hi)

\* C24: in every reachable state the total score is the sum of the scores of
\* the agents of the world.
C24_TotalIsSumOfAgentScores == score = SumScores(agents, 1, Len(agents))

\* after two steps two agents have scores that are not zero, one of them
\* negative
C24_Witness ==
  /\ last.stepOnce = 1
  /\ tick = 2
  /\ \E i \in 1..Len(agents) : \E j \in 1..Len(agents) :
       i # j /\ agents[i].score < 0 /\ agents[j].score # 0

\* C25: a spawn click, in any state, leaves tick 0, total score 0, every
\* agent's score 0 and a world made anew from the configuration, the canvas
\* and fresh random draws only (the foods and dangers are the complete newly
\* numbered sets, no event of the previous run remains), and it changes
\* neither running nor the pending loop callbacks.
C25_ResetIsClean ==
  /\ [](last.op = "spawn" =>
          /\ tick = 0
          /\ score = 0
          /\ \A i \in 1..Len(agents) : agents[i].score = 0
          /\ \A i \in 1..Len(foods) : foods[i].id = i - 1
          /\ \A i \in 1..Len(dangers) : dangers[i].id = i - 1
          /\ \E s \in Streams :
               /\ agents = Spawned[inputs, width, s].agents
               /\ foods = Spawned[inputs, width, s].foods
               /\ dangers = Spawned[inputs, width, s].dangers
          /\ ev = NoEvents
          /\ stats.tick = 0 /\ stats.score = 0)
  /\ [][last'.op = "spawn" =>
          UNCHANGED <<running, raf, rafLive, orphans, timers, width>>]_vars

\* a spawn click while the simulation is running with a loop callback
\* pending, on a world of several agents
C25_Witness ==
  /\ last.op = "spawn"
  /\ running
  /\ Pending >= 1
  /\ Len(agents) > 1

====
